---- MODULE Spec2Model ----
(***************************************************************************)
(* Room session lifecycle of server/service/tldraw/rooms.ts:               *)
(* the rooms map, the promise-chain mutex of makeOrLoadRoom, the           *)
(* onSessionRemoved retention run, onDataChange, saveSnapshot and the      *)
(* setInterval sweeper, together with the tables of init.sql they touch.   *)
(*                                                                         *)
(* Scheduling is Node's event loop: an action is one macrotask with the    *)
(* microtasks it triggers, i.e. the code between two I/O completions.      *)
(* A slot of the mutex chain that does not await (rooms.ts:123-127) and    *)
(* the resumption of its caller (rooms.ts:182-184, tldrawRoutes.ts:38-40)  *)
(* are microtasks of the step that settles the slot before it.             *)
(***************************************************************************)
EXTENDS Naturals, Integers, Sequences, FiniteSets, TLC

\* ---------------------------------------------------------------- bounds
BoardSeq == <<"X", "Y">>      \* room ids (also usable as board and folder ids)
Boards == {BoardSeq[i] : i \in 1 .. Len(BoardSeq)}
OneBoard == {"X"}             \* the ids requested under Spec
MaxClients == 2               \* clients connecting or connected at a time
MaxClientsQ == 3              \* the same, under SpecQ
MaxRooms == 3                 \* TLSocketRoom instances ever constructed
MaxRuns == 2                  \* retention runs in flight at a time
MaxFlushes == 2               \* sweeper saveSnapshot calls in flight
MaxEdits == 2                 \* document edits in a behaviour
MaxIO == 3                    \* retention runs and sweeper saves in flight together
MaxEnv == 1                   \* exceptions and catalog changes in a behaviour
MaxCalls == 4                 \* FolderService calls in a behaviour
MaxInFlight == 2              \* FolderService calls in flight at a time

Absent == 0 - 1               \* no row in tldraw_rooms / undefined snapshot
Empty == 0                    \* content of a room constructed without snapshot
Stored == 1                   \* content of a snapshot row present at start
NoRoom == 0                   \* rooms.get(id) === undefined
Contents == 0 .. Stored + MaxEdits

FolderSeq == <<"X", "Y", "Z">>  \* folder ids
FolderIds == {FolderSeq[i] : i \in 1 .. Len(FolderSeq)}
Null == "null"                \* parent_folder_id / folder_id IS NULL
NoName == 0                   \* name column of a row no call has written

VARIABLES
  rooms,      \* rooms map: id -> index into roomObjs, or NoRoom
  roomObjs,   \* every RoomState/TLSocketRoom constructed so far
  queue,      \* pending slots of the mutex chain; the head awaits its read
  runs,       \* retention runs in flight (the async block of onSessionRemoved)
  flushes,    \* saveSnapshot calls started by the sweeper, in flight
  store,      \* tldraw_rooms: id -> snapshot or Absent
  boards,     \* boards table (ids)
  folders,    \* folders table (ids)
  nEdits,     \* number of document edits so far
  nEnv,       \* number of exceptions and catalog changes so far
  lastReturn, \* observation: the makeOrLoadRoom completions of the latest step
  lastRun,    \* observation: the retention run that ended in the latest step
  batch,      \* observation: per id, the current group of concurrent cold calls
  folderAttr, \* folders table: id -> name and parent_folder_id of the row
  boardAttr,  \* boards table: id -> name and folder_id of the row
  calls,      \* FolderService calls in flight, each at one of its awaits
  nCalls,     \* number of FolderService calls started so far
  lastCall    \* observation: the FolderService call that ended in the latest step

vars == <<rooms, roomObjs, queue, runs, flushes, store, boards, folders,
          nEdits, nEnv, lastReturn, lastRun, batch,
          folderAttr, boardAttr, calls, nCalls, lastCall>>

\* what the room sessions never touch: the columns of the catalog rows and
\* the FolderService calls in flight
catalogVars == <<folderAttr, boardAttr, calls, nCalls, lastCall>>

NoRun == [room |-> NoRoom]
NoBatch == [got |-> {}, reads |-> 0, void |-> FALSE]
Void == [got |-> {}, reads |-> 0, void |-> TRUE]

\* ------------------------------------------------------------- helpers
\* rooms.ts:123-127: the slot short-circuits iff a record exists and is open
IsLive(rm, objs, id) ==
  /\ rm[id] # NoRoom
  /\ ~objs[rm[id]].closed

\* tldrawRoutes.ts:40 handleSocketConnect on the returned room
Attach(objs, r) == [objs EXCEPT ![r].n = @ + 1]

\* mutant of NewRoomState: initialSnapshot is not handed to the constructor
NewRoomStateUnseeded(id, initialSnapshot) ==
  [id |-> id, closed |-> FALSE, needsPersist |-> FALSE, n |-> 0, snap |-> Empty]

\* variant of NewRoomState: the record is created with needsPersist true
NewRoomStateDirty(id, initialSnapshot) ==
  [id |-> id, closed |-> FALSE, needsPersist |-> TRUE, n |-> 0,
   snap |-> IF initialSnapshot = Absent THEN Empty ELSE initialSnapshot]

\* rooms.ts:135-174: a fresh RoomState with needsPersist false
NewRoomState(id, initialSnapshot) ==
  [id |-> id, closed |-> FALSE, needsPersist |-> FALSE, n |-> 0,
   snap |-> IF initialSnapshot = Absent THEN Empty ELSE initialSnapshot]

\* rooms.ts:47-61: row.snapshot, or undefined when no row or when findOne threw
ReadResult(st, id, threw) == IF threw THEN Absent ELSE st[id]

\* variant of CanWrite: a row can be written whether or not its board exists
CanWriteUnchecked(bs, id) == TRUE

\* init.sql:30-33: a tldraw_rooms row needs its boards row
CanWrite(bs, id) == id \in bs

Remove(q, k) == SubSeq(q, 1, k - 1) \o SubSeq(q, k + 1, Len(q))

\* rooms.ts:75-87: what saveSnapshot does after its findOne: save the row it
\* found ("write") or a row it creates ("insert")
SaveStep(st, id) == IF st[id] = Absent THEN "insert" ELSE "write"

\* rooms.ts:82-86: the save of a created row meets a row that another writer
\* has inserted since the findOne; depending on the instant at which save
\* looks the row up it overwrites it or fails on the primary key
CanCollide(pc, st, id) == pc = "insert" /\ st[id] # Absent

\* ------------------------------------------------------ observations
\* what the caller of makeOrLoadRoom got (rooms.ts:182-184)
ReturnRec(slot, r, cold, threw, val, objs) ==
  [id |-> slot.id, room |-> r, err |-> FALSE, cold |-> cold,
   readThrew |-> threw, readVal |-> val,
   closedAtReturn |-> objs[r].closed, snap |-> objs[r].snap]

ErrorRec(slot, threw, val) ==
  [id |-> slot.id, room |-> NoRoom, err |-> TRUE, cold |-> TRUE,
   readThrew |-> threw, readVal |-> val,
   closedAtReturn |-> FALSE, snap |-> Absent]

PendingBatch(q, id) == \E i \in 1 .. Len(q) : q[i].id = id /\ q[i].inBatch

\* a group whose members have all returned is forgotten by the next step
Settle(bt, q) ==
  [id \in Boards |-> IF PendingBatch(q, id) THEN bt[id] ELSE NoBatch]

BatchGot(bt, slot, r) ==
  IF slot.inBatch /\ ~bt[slot.id].void
  THEN [bt EXCEPT ![slot.id].got = @ \cup {r}]
  ELSE bt

BatchRead(bt, slot) ==
  IF slot.inBatch /\ ~bt[slot.id].void
  THEN [bt EXCEPT ![slot.id].reads = @ + 1]
  ELSE bt

\* a load of the group failed, or a room of its id was closed meanwhile
BatchVoid(bt, id) == [bt EXCEPT ![id] = Void]

\* a step that completes no makeOrLoadRoom and ends no retention run
Quiet ==
  /\ lastReturn' = <<>>
  /\ lastRun' = NoRun
  /\ batch' = Settle(batch, queue)

\* variant of Drain: the value a failed slot resolves to rejects the slots
\* chained behind it
RECURSIVE DrainPoisoned(_, _, _, _, _)
DrainPoisoned(q, rm, objs, ret, bt) ==
  IF q = <<>>
  THEN [queue |-> q, roomObjs |-> objs, lastReturn |-> ret, batch |-> bt]
  ELSE LET slot == Head(q) IN
       IF ret # <<>> /\ ret[Len(ret)].err
       THEN DrainPoisoned(Tail(q), rm, objs,
                          Append(ret, ErrorRec(slot, FALSE, Absent)), bt)
       ELSE IF IsLive(rm, objs, slot.id)
       THEN LET r == rm[slot.id] IN
            DrainPoisoned(Tail(q), rm, Attach(objs, r),
                          Append(ret, ReturnRec(slot, r, FALSE, FALSE, Absent, objs)),
                          BatchGot(bt, slot, r))
       ELSE [queue |-> q, roomObjs |-> objs, lastReturn |-> ret, batch |-> bt]

\* ------------------------------------------------------ the mutex chain
\* rooms.ts:121-128 and 182-184 for the slots behind a slot that has just
\* settled: each runs in the same microtask drain; a slot that finds a live
\* record returns it to its caller, who attaches (tldrawRoutes.ts:38-40);
\* the first slot that does not becomes the head and awaits its read.
RECURSIVE Drain(_, _, _, _, _)
Drain(q, rm, objs, ret, bt) ==
  IF q = <<>>
  THEN [queue |-> q, roomObjs |-> objs, lastReturn |-> ret, batch |-> bt]
  ELSE LET slot == Head(q) IN
       IF IsLive(rm, objs, slot.id)
       THEN LET r == rm[slot.id] IN
            Drain(Tail(q), rm, Attach(objs, r),
                  Append(ret, ReturnRec(slot, r, FALSE, FALSE, Absent, objs)),
                  BatchGot(bt, slot, r))
       ELSE [queue |-> q, roomObjs |-> objs, lastReturn |-> ret, batch |-> bt]

RECURSIVE Connected(_)
Connected(objs) ==
  IF objs = <<>> THEN 0 ELSE Head(objs).n + Connected(Tail(objs))

\* clients waiting in makeOrLoadRoom or attached to a room
Clients(q, objs) == Len(q) + Connected(objs)

\* variant of Call: the slot is put in front of the pending slots
CallLifo(id, cap) ==
  /\ Clients(queue, roomObjs) < cap
  /\ LET cold == ~IsLive(rooms, roomObjs, id)
         slot == [id |-> id, inBatch |-> cold]
         bt   == Settle(batch, queue)
         d    == IF queue = <<>>
                 THEN Drain(<<slot>>, rooms, roomObjs, <<>>, bt)
                 ELSE [queue |-> <<slot>> \o queue, roomObjs |-> roomObjs,
                       lastReturn |-> <<>>, batch |-> bt]
     IN /\ queue' = d.queue
        /\ roomObjs' = d.roomObjs
        /\ lastReturn' = d.lastReturn
        /\ batch' = d.batch
  /\ lastRun' = NoRun
  /\ UNCHANGED <<rooms, runs, flushes, store, boards, folders, nEdits, nEnv>>
  /\ UNCHANGED catalogVars

\* rooms.ts:120-122: makeOrLoadRoom(roomId) chains a slot onto the mutex
Call(id, cap) ==
  /\ Clients(queue, roomObjs) < cap
  /\ LET cold == ~IsLive(rooms, roomObjs, id)
         slot == [id |-> id, inBatch |-> cold]
         bt   == Settle(batch, queue)
         d    == IF queue = <<>>
                 THEN Drain(<<slot>>, rooms, roomObjs, <<>>, bt)
                 ELSE [queue |-> Append(queue, slot), roomObjs |-> roomObjs,
                       lastReturn |-> <<>>, batch |-> bt]
     IN /\ queue' = d.queue
        /\ roomObjs' = d.roomObjs
        /\ lastReturn' = d.lastReturn
        /\ batch' = d.batch
  /\ lastRun' = NoRun
  /\ UNCHANGED <<rooms, runs, flushes, store, boards, folders, nEdits, nEnv>>
  /\ UNCHANGED catalogVars

\* variant of LoadOk: the constructed room is handed to the caller without
\* being filed in the map
LoadOkUnfiled(readThrew) ==
  /\ queue # <<>>
  /\ Len(roomObjs) < MaxRooms
  /\ readThrew => nEnv < MaxEnv
  /\ LET slot == Head(queue)
         val  == ReadResult(store, slot.id, readThrew)
         r    == Len(roomObjs) + 1
         objs == Append(roomObjs, NewRoomState(slot.id, val))
         d    == Drain(Tail(queue), rooms, Attach(objs, r),
                       <<ReturnRec(slot, r, TRUE, readThrew, store[slot.id], objs)>>,
                       BatchGot(BatchRead(batch, slot), slot, r))
     IN /\ rooms' = rooms
        /\ queue' = d.queue
        /\ roomObjs' = d.roomObjs
        /\ lastReturn' = d.lastReturn
        /\ batch' = d.batch
  /\ nEnv' = IF readThrew THEN nEnv + 1 ELSE nEnv
  /\ lastRun' = NoRun
  /\ UNCHANGED <<runs, flushes, store, boards, folders, nEdits>>
  /\ UNCHANGED catalogVars

\* rooms.ts:132-176: the head's read settles (readThrew: findOne raised and
\* readSnapshotIfExists returned undefined), the room is constructed and
\* published, the caller reads it back and attaches; then the chain drains.
LoadOk(readThrew) ==
  /\ queue # <<>>
  /\ Len(roomObjs) < MaxRooms
  /\ readThrew => nEnv < MaxEnv
  /\ LET slot == Head(queue)
         val  == ReadResult(store, slot.id, readThrew)
         r    == Len(roomObjs) + 1
         objs == Append(roomObjs, NewRoomState(slot.id, val))
         rm   == [rooms EXCEPT ![slot.id] = r]
         d    == Drain(Tail(queue), rm, Attach(objs, r),
                       <<ReturnRec(slot, r, TRUE, readThrew, store[slot.id], objs)>>,
                       BatchGot(BatchRead(batch, slot), slot, r))
     IN /\ rooms' = rm
        /\ queue' = d.queue
        /\ roomObjs' = d.roomObjs
        /\ lastReturn' = d.lastReturn
        /\ batch' = d.batch
  /\ nEnv' = IF readThrew THEN nEnv + 1 ELSE nEnv
  /\ lastRun' = NoRun
  /\ UNCHANGED <<runs, flushes, store, boards, folders, nEdits>>
  /\ UNCHANGED catalogVars

\* variant of LoadThrows: the rejection is not caught, and the slots chained
\* behind the failed one never run
LoadThrowsDropsChain ==
  /\ queue # <<>>
  /\ nEnv < MaxEnv
  /\ queue' = <<>>
  /\ lastReturn' = <<ErrorRec(Head(queue), FALSE, store[Head(queue).id])>>
  /\ batch' = IF Head(queue).inBatch THEN BatchVoid(batch, Head(queue).id) ELSE batch
  /\ nEnv' = nEnv + 1
  /\ lastRun' = NoRun
  /\ UNCHANGED <<rooms, roomObjs, runs, flushes, store, boards, folders, nEdits>>
  /\ UNCHANGED catalogVars

\* variant of LoadThrows: the record is filed in the map before the
\* constructor has returned
LoadThrowsPartial ==
  /\ queue # <<>>
  /\ nEnv < MaxEnv
  /\ Len(roomObjs) < MaxRooms
  /\ LET slot == Head(queue)
         r    == Len(roomObjs) + 1
         objs == Append(roomObjs, NewRoomState(slot.id, Absent))
         rm   == [rooms EXCEPT ![slot.id] = r]
         d    == Drain(Tail(queue), rm, objs,
                       <<ErrorRec(slot, FALSE, store[slot.id])>>,
                       IF slot.inBatch THEN BatchVoid(batch, slot.id) ELSE batch)
     IN /\ rooms' = rm
        /\ queue' = d.queue
        /\ roomObjs' = d.roomObjs
        /\ lastReturn' = d.lastReturn
        /\ batch' = d.batch
  /\ nEnv' = nEnv + 1
  /\ lastRun' = NoRun
  /\ UNCHANGED <<runs, flushes, store, boards, folders, nEdits>>
  /\ UNCHANGED catalogVars

\* rooms.ts:138 and 178-183: new TLSocketRoom raises; the error goes to the
\* caller of this slot, nothing is published, the chain drains.
LoadThrows ==
  /\ queue # <<>>
  /\ nEnv < MaxEnv
  /\ LET slot == Head(queue)
         d    == Drain(Tail(queue), rooms, roomObjs,
                       <<ErrorRec(slot, FALSE, store[slot.id])>>,
                       IF slot.inBatch THEN BatchVoid(batch, slot.id) ELSE batch)
     IN /\ queue' = d.queue
        /\ roomObjs' = d.roomObjs
        /\ lastReturn' = d.lastReturn
        /\ batch' = d.batch
  /\ nEnv' = nEnv + 1
  /\ lastRun' = NoRun
  /\ UNCHANGED <<rooms, runs, flushes, store, boards, folders, nEdits>>
  /\ UNCHANGED catalogVars

\* --------------------------------------------------- session callbacks
\* variant of Mutate: the flag is shared by the open rooms instead of
\* belonging to the record of the edited session
MutateFlagsAll(r) ==
  /\ ~roomObjs[r].closed
  /\ roomObjs[r].n > 0
  /\ nEdits < MaxEdits
  /\ nEdits' = nEdits + 1
  /\ roomObjs' = [q \in DOMAIN roomObjs |->
                    IF q = r
                    THEN [roomObjs[q] EXCEPT !.snap = Stored + nEdits + 1,
                                             !.needsPersist = TRUE]
                    ELSE IF roomObjs[q].closed THEN roomObjs[q]
                    ELSE [roomObjs[q] EXCEPT !.needsPersist = TRUE]]
  /\ Quiet
  /\ UNCHANGED <<rooms, queue, runs, flushes, store, boards, folders, nEnv>>
  /\ UNCHANGED catalogVars

\* rooms.ts:170-172 onDataChange: a connected participant edits the document
Mutate(r) ==
  /\ ~roomObjs[r].closed
  /\ roomObjs[r].n > 0
  /\ nEdits < MaxEdits
  /\ nEdits' = nEdits + 1
  /\ roomObjs' = [roomObjs EXCEPT ![r].snap = Stored + nEdits + 1,
                                  ![r].needsPersist = TRUE]
  /\ Quiet
  /\ UNCHANGED <<rooms, queue, runs, flushes, store, boards, folders, nEnv>>
  /\ UNCHANGED catalogVars

\* rooms.ts:151: a retention run at its first await
NewRun(r, objs) ==
  [room |-> r, pc |-> "check", snap |-> Absent,
   dirtyAtLeave |-> objs[r].needsPersist, boardAtCheck |-> FALSE]

\* variant of Leave: the retention run is started at every departure
LeaveAnyCount(r) ==
  /\ ~roomObjs[r].closed
  /\ roomObjs[r].n > 0
  /\ roomObjs' = [roomObjs EXCEPT ![r].n = @ - 1]
  /\ Len(runs) < MaxRuns
  /\ Len(runs) + Len(flushes) < MaxIO
  /\ runs' = Append(runs, NewRun(r, roomObjs))
  /\ Quiet
  /\ UNCHANGED <<rooms, queue, flushes, store, boards, folders, nEdits, nEnv>>
  /\ UNCHANGED catalogVars

\* rooms.ts:146-165 onSessionRemoved: a participant disconnects; with none
\* remaining the async block starts and suspends on checkFolderExists
Leave(r) ==
  /\ ~roomObjs[r].closed
  /\ roomObjs[r].n > 0
  /\ roomObjs' = [roomObjs EXCEPT ![r].n = @ - 1]
  /\ IF roomObjs[r].n = 1
     THEN /\ Len(runs) < MaxRuns
          /\ Len(runs) + Len(flushes) < MaxIO
          /\ runs' = Append(runs, NewRun(r, roomObjs))
     ELSE runs' = runs
  /\ Quiet
  /\ UNCHANGED <<rooms, queue, flushes, store, boards, folders, nEdits, nEnv>>
  /\ UNCHANGED catalogVars

\* the fields of a closed room are read only by the retention runs that still
\* hold it (rooms.ts:156-158); once none does, the object is garbage
Closed(obj, held) ==
  IF held
  THEN [obj EXCEPT !.closed = TRUE, !.n = 0]
  ELSE [obj EXCEPT !.closed = TRUE, !.n = 0, !.needsPersist = FALSE, !.snap = Empty]

\* what a retention run did, as seen when it ends
RunReport(run, path, st, aborted) ==
  LET r  == run.room
      id == roomObjs[r].id
  IN [room |-> r, id |-> id, aborted |-> aborted,
      dirtyAtLeave |-> run.dirtyAtLeave, boardAtCheck |-> run.boardAtCheck,
      del |-> (path = "delete"), ups |-> (path = "save"),
      storeAtEnd |-> st[id], snapAtEnd |-> roomObjs[r].snap,
      lostLive |-> (~aborted /\ rooms[id] # NoRoom /\ rooms[id] # r
                    /\ ~roomObjs[rooms[id]].closed)]

\* rooms.ts:160-163: room.close() severs the connections, then
\* rooms.delete(roomState.id) removes whatever record is filed under the id
CloseAndRemove(i, run, path, st) ==
  LET r    == run.room
      id   == roomObjs[r].id
      rest == Remove(runs, i)
      held == \E j \in 1 .. Len(rest) : rest[j].room = r
      bt   == Settle(batch, queue)
  IN /\ roomObjs' = [roomObjs EXCEPT ![r] = Closed(@, held)]
     /\ rooms' = [rooms EXCEPT ![id] = NoRoom]
     /\ runs' = rest
     /\ lastRun' = RunReport(run, path, st, FALSE)
     /\ batch' = IF ~roomObjs[r].closed /\ PendingBatch(queue, id)
                 THEN BatchVoid(bt, id) ELSE bt
     /\ lastReturn' = <<>>

\* rooms.ts:153-159: checkFolderExists settles with folders.count > 0
RetCheckDone(i) ==
  /\ runs[i].pc = "check"
  /\ LET r   == runs[i].room
         id  == roomObjs[r].id
         run == [runs[i] EXCEPT !.boardAtCheck = (id \in boards)]
     IN IF id \in folders
        THEN /\ runs' = [runs EXCEPT ![i] = [run EXCEPT !.pc = "delete"]]
             /\ Quiet
             /\ UNCHANGED <<rooms, roomObjs>>
        ELSE IF roomObjs[r].needsPersist
        THEN /\ runs' = [runs EXCEPT ![i] = [run EXCEPT !.pc = "find",
                                                        !.snap = roomObjs[r].snap]]
             /\ Quiet
             /\ UNCHANGED <<rooms, roomObjs>>
        ELSE CloseAndRemove(i, run, "none", store)
  /\ UNCHANGED <<queue, flushes, store, boards, folders, nEdits, nEnv>>
  /\ UNCHANGED catalogVars

\* variant of RetThrows: a failed checkFolderExists is taken as "delete"
RetThrowsDeletes(i) ==
  /\ runs[i].pc \in {"check", "delete"}
  /\ nEnv < MaxEnv
  /\ runs' = Remove(runs, i)
  /\ nEnv' = nEnv + 1
  /\ store' = [store EXCEPT ![roomObjs[runs[i].room].id] = Absent]
  /\ lastRun' = RunReport(runs[i], "delete", store', TRUE)
  /\ lastReturn' = <<>>
  /\ batch' = Settle(batch, queue)
  /\ UNCHANGED <<rooms, roomObjs, queue, flushes, boards, folders, nEdits>>
  /\ UNCHANGED catalogVars

\* rooms.ts:151-164: checkFolderExists or roomRepo.delete raises; the async
\* block rejects and never reaches room.close()
RetThrows(i) ==
  /\ runs[i].pc \in {"check", "delete"}
  /\ nEnv < MaxEnv
  /\ runs' = Remove(runs, i)
  /\ nEnv' = nEnv + 1
  /\ lastRun' = RunReport(runs[i], IF runs[i].pc = "delete" THEN "delete" ELSE "none",
                          store, TRUE)
  /\ lastReturn' = <<>>
  /\ batch' = Settle(batch, queue)
  /\ UNCHANGED <<rooms, roomObjs, queue, flushes, store, boards, folders, nEdits>>
  /\ UNCHANGED catalogVars

\* rooms.ts:155 and 160-163: roomRepo.delete(roomId) settles
RetDeleteDone(i) ==
  /\ runs[i].pc = "delete"
  /\ LET id == roomObjs[runs[i].room].id
         st == [store EXCEPT ![id] = Absent]
     IN /\ store' = st
        /\ CloseAndRemove(i, runs[i], "delete", st)
  /\ UNCHANGED <<queue, flushes, boards, folders, nEdits, nEnv>>
  /\ UNCHANGED catalogVars

\* rooms.ts:75: saveSnapshot's findOne settles for a retention run
\* (threw: it raised, saveSnapshot logs and returns, the run goes on)
RetFindDone(i, threw) ==
  /\ runs[i].pc = "find"
  /\ threw => nEnv < MaxEnv
  /\ IF threw
     THEN /\ CloseAndRemove(i, runs[i], "save", store)
          /\ nEnv' = nEnv + 1
     ELSE /\ runs' = [runs EXCEPT ![i].pc =
                                   SaveStep(store, roomObjs[runs[i].room].id)]
          /\ Quiet
          /\ UNCHANGED <<rooms, roomObjs, nEnv>>
  /\ UNCHANGED <<queue, flushes, store, boards, folders, nEdits>>
  /\ UNCHANGED catalogVars

\* rooms.ts:76-90 and 160-163: saveSnapshot's save settles for a retention
\* run; without a boards row the insert violates the foreign key (threw: the
\* save raised, on the primary key if it can, else for another reason)
RetWriteDone(i, threw) ==
  /\ runs[i].pc \in {"write", "insert"}
  /\ LET id   == roomObjs[runs[i].room].id
         env  == threw /\ ~CanCollide(runs[i].pc, store, id)
         fail == threw \/ ~CanWrite(boards, id)
         st   == IF fail THEN store ELSE [store EXCEPT ![id] = runs[i].snap]
     IN /\ env => nEnv < MaxEnv /\ CanWrite(boards, id)
        /\ store' = st
        /\ CloseAndRemove(i, runs[i], "save", st)
        /\ nEnv' = IF env THEN nEnv + 1 ELSE nEnv
  /\ UNCHANGED <<queue, flushes, boards, folders, nEdits>>
  /\ UNCHANGED catalogVars

\* ------------------------------------------------------------ sweeper
InMap(rm, r) == \E id \in Boards : rm[id] = r

\* rooms.ts:193-197: the saveSnapshot calls one tick starts, in map order
RECURSIVE TickFlushes(_, _, _)
TickFlushes(ids, rm, objs) ==
  IF ids = <<>> THEN <<>>
  ELSE LET id == Head(ids)
           r  == rm[id]
       IN (IF r # NoRoom /\ objs[r].needsPersist
           THEN <<[id |-> id, room |-> r, snap |-> objs[r].snap, pc |-> "find"]>>
           ELSE <<>>) \o TickFlushes(Tail(ids), rm, objs)

\* variant of Swept: the tick leaves needsPersist as it is
SweptKeepsDirty(obj) == obj

\* rooms.ts:194: the tick clears needsPersist before the write has settled
Swept(obj) == [obj EXCEPT !.needsPersist = FALSE]

\* variant of SweeperTick: the tick evicts the records it flushes instead of
\* the closed ones
SweeperTickEvictsDirty ==
  /\ LET started == TickFlushes(BoardSeq, rooms, roomObjs)
     IN /\ Len(flushes) + Len(started) <= MaxFlushes
        /\ Len(runs) + Len(flushes) + Len(started) <= MaxIO
        /\ flushes' = flushes \o started
  /\ roomObjs' = [r \in DOMAIN roomObjs |->
                    IF InMap(rooms, r) THEN Swept(roomObjs[r]) ELSE roomObjs[r]]
  /\ rooms' = [id \in Boards |->
                 IF rooms[id] # NoRoom /\ roomObjs[rooms[id]].needsPersist
                 THEN NoRoom ELSE rooms[id]]
  /\ Quiet
  /\ UNCHANGED <<queue, runs, store, boards, folders, nEdits, nEnv>>
  /\ UNCHANGED catalogVars

\* rooms.ts:191-203: one tick of the interval; the loop body has no await
SweeperTick ==
  /\ LET started == TickFlushes(BoardSeq, rooms, roomObjs)
     IN /\ Len(flushes) + Len(started) <= MaxFlushes
        /\ Len(runs) + Len(flushes) + Len(started) <= MaxIO
        /\ flushes' = flushes \o started
  /\ roomObjs' = [r \in DOMAIN roomObjs |->
                    IF InMap(rooms, r) THEN Swept(roomObjs[r]) ELSE roomObjs[r]]
  /\ rooms' = [id \in Boards |->
                 IF rooms[id] # NoRoom /\ roomObjs[rooms[id]].closed
                 THEN NoRoom ELSE rooms[id]]
  /\ Quiet
  /\ UNCHANGED <<queue, runs, store, boards, folders, nEdits, nEnv>>
  /\ UNCHANGED catalogVars

\* rooms.ts:75: findOne of a sweeper-started saveSnapshot settles
FlushFindDone(k, threw) ==
  /\ flushes[k].pc = "find"
  /\ threw => nEnv < MaxEnv
  /\ flushes' = IF threw THEN Remove(flushes, k)
                ELSE [flushes EXCEPT ![k].pc = SaveStep(store, flushes[k].id)]
  /\ nEnv' = IF threw THEN nEnv + 1 ELSE nEnv
  /\ Quiet
  /\ UNCHANGED <<rooms, roomObjs, queue, runs, store, boards, folders, nEdits>>
  /\ UNCHANGED catalogVars

\* rooms.ts:76-90: save of a sweeper-started saveSnapshot settles; an
\* exception is logged and swallowed
FlushWriteDone(k, threw) ==
  /\ flushes[k].pc \in {"write", "insert"}
  /\ LET id   == flushes[k].id
         env  == threw /\ ~CanCollide(flushes[k].pc, store, id)
         fail == threw \/ ~CanWrite(boards, id)
     IN /\ env => nEnv < MaxEnv /\ CanWrite(boards, id)
        /\ store' = IF fail THEN store ELSE [store EXCEPT ![id] = flushes[k].snap]
        /\ nEnv' = IF env THEN nEnv + 1 ELSE nEnv
  /\ flushes' = Remove(flushes, k)
  /\ Quiet
  /\ UNCHANGED <<rooms, roomObjs, queue, runs, boards, folders, nEdits>>
  /\ UNCHANGED catalogVars

\* ------------------------------------------------------------ catalog
\* FolderService.deleteBoard; init.sql:30-33 cascades the deletion of a
\* board to its tldraw_rooms row
DeleteBoard(id) ==
  /\ nEnv < MaxEnv
  /\ id \in boards
  /\ boards' = boards \ {id}
  /\ store' = [store EXCEPT ![id] = Absent]
  /\ nEnv' = nEnv + 1
  /\ Quiet
  /\ UNCHANGED <<rooms, roomObjs, queue, runs, flushes, folders, nEdits>>
  /\ UNCHANGED catalogVars

\* FolderService.createFolder with an id that is also a room id
CreateFolder(id) ==
  /\ nEnv < MaxEnv
  /\ id \notin folders
  /\ folders' = folders \cup {id}
  /\ nEnv' = nEnv + 1
  /\ Quiet
  /\ UNCHANGED <<rooms, roomObjs, queue, runs, flushes, store, boards, nEdits>>
  /\ UNCHANGED catalogVars

\* ------------------------------------------------- FolderService calls
\* A call of createFolder, createBoard or moveFolder is a record of its
\* arguments and of the await it is suspended on; a step is the code from one
\* await to the next. The k-th call of a behaviour carries the name k.
NoCall == [op |-> "none"]
NoRow == [name |-> NoName, parent |-> "none"]
RootRow == [name |-> NoName, parent |-> Null]

\* the folders row / boards row stored under an id, if any
FolderRow(id) == IF id \in folders THEN folderAttr[id] ELSE NoRow
BoardRow(id) == IF id \in boards THEN boardAttr[id] ELSE NoRow

roomVars == <<rooms, roomObjs, queue, runs, flushes, store, nEdits, nEnv,
              lastReturn, lastRun, batch>>

\* what the caller of a FolderService function observes when it settles
Outcome(c, err, before, after) ==
  [op |-> c.op, id |-> c.id, name |-> c.name, parent |-> c.parent,
   err |-> err, before |-> before, after |-> after]

\* the function is entered and suspends on its first findOne
StartCall(op, id, parent) ==
  /\ nCalls < MaxCalls
  /\ Len(calls) < MaxInFlight
  /\ calls' = Append(calls, [op |-> op, id |-> id, name |-> nCalls + 1,
                             parent |-> parent, pc |-> "find"])
  /\ nCalls' = nCalls + 1
  /\ lastCall' = NoCall
  /\ UNCHANGED <<folders, boards, folderAttr, boardAttr>>
  /\ UNCHANGED roomVars

\* the call goes on to its next await
Goto(k, pc) ==
  /\ calls' = [calls EXCEPT ![k].pc = pc]
  /\ lastCall' = NoCall
  /\ UNCHANGED <<folders, boards, folderAttr, boardAttr, nCalls>>
  /\ UNCHANGED roomVars

\* the call throws: the route replies 400 (folderRoutes.ts), no row is touched
Throw(k, before) ==
  /\ calls' = Remove(calls, k)
  /\ lastCall' = Outcome(calls[k], TRUE, before, before)
  /\ UNCHANGED <<folders, boards, folderAttr, boardAttr, nCalls>>
  /\ UNCHANGED roomVars

\* FolderService.ts:71 createFolder(folderId, name, parentFolderId)
CreateFolderStart(id, parent) == StartCall("createFolder", id, parent)

\* FolderService.ts:73-80: the duplicate check settles
CreateFolderFindDone(k) ==
  /\ calls[k].op = "createFolder"
  /\ calls[k].pc = "find"
  /\ IF calls[k].id \in folders
     THEN Throw(k, FolderRow(calls[k].id))
     ELSE Goto(k, IF calls[k].parent # Null THEN "parent" ELSE "save")

\* FolderService.ts:81-90: the parent's row settles; a missing parent and a
\* parent that has a parent are refused
CreateFolderParentDone(k) ==
  /\ calls[k].op = "createFolder"
  /\ calls[k].pc = "parent"
  /\ IF calls[k].parent \notin folders \/ folderAttr[calls[k].parent].parent # Null
     THEN Throw(k, FolderRow(calls[k].id))
     ELSE Goto(k, "save")

\* FolderService.ts:93-100: save of the created entity settles. If a row of
\* that id has been stored since the check, save either updates it (it found
\* the row) or fails on the primary key (it did not, and its INSERT collides).
CreateFolderSaveDone(k, found) ==
  /\ calls[k].op = "createFolder"
  /\ calls[k].pc = "save"
  /\ found => calls[k].id \in folders
  /\ LET c   == calls[k]
         row == [name |-> c.name, parent |-> c.parent]
     IN IF c.id \in folders /\ ~found
        THEN Throw(k, FolderRow(c.id))
        ELSE /\ folders' = folders \cup {c.id}
             /\ folderAttr' = [folderAttr EXCEPT ![c.id] = row]
             /\ calls' = Remove(calls, k)
             /\ lastCall' = Outcome(c, FALSE, FolderRow(c.id), row)
             /\ UNCHANGED <<boards, boardAttr, nCalls>>
             /\ UNCHANGED roomVars

\* FolderService.ts:111 createBoard(boardId, name, folderId)
CreateBoardStart(id, folder) == StartCall("createBoard", id, folder)

\* FolderService.ts:113-120: the duplicate check settles
CreateBoardFindDone(k) ==
  /\ calls[k].op = "createBoard"
  /\ calls[k].pc = "find"
  /\ IF calls[k].id \in boards
     THEN Throw(k, BoardRow(calls[k].id))
     ELSE Goto(k, IF calls[k].parent # Null THEN "parent" ELSE "save")

\* FolderService.ts:121-127: the folder's row settles; a missing folder is
\* refused, a folder of either level is accepted
CreateBoardFolderDone(k) ==
  /\ calls[k].op = "createBoard"
  /\ calls[k].pc = "parent"
  /\ IF calls[k].parent \notin folders
     THEN Throw(k, BoardRow(calls[k].id))
     ELSE Goto(k, "save")

\* FolderService.ts:130-137: save of the created entity settles
CreateBoardSaveDone(k, found) ==
  /\ calls[k].op = "createBoard"
  /\ calls[k].pc = "save"
  /\ found => calls[k].id \in boards
  /\ LET c   == calls[k]
         row == [name |-> c.name, parent |-> c.parent]
     IN IF c.id \in boards /\ ~found
        THEN Throw(k, BoardRow(c.id))
        ELSE /\ boards' = boards \cup {c.id}
             /\ boardAttr' = [boardAttr EXCEPT ![c.id] = row]
             /\ calls' = Remove(calls, k)
             /\ lastCall' = Outcome(c, FALSE, BoardRow(c.id), row)
             /\ UNCHANGED <<folders, folderAttr, nCalls>>
             /\ UNCHANGED roomVars

\* FolderService.ts:273 moveFolder(folderId, newParentFolderId)
MoveFolderStart(id, parent) == StartCall("moveFolder", id, parent)

\* FolderService.ts:275-282: the folder's row settles; the entity is loaded
\* with the name the row has now
MoveFolderFindDone(k) ==
  /\ calls[k].op = "moveFolder"
  /\ calls[k].pc = "find"
  /\ IF calls[k].id \notin folders
     THEN Throw(k, NoRow)
     ELSE /\ calls' = [calls EXCEPT
                         ![k].name = folderAttr[calls[k].id].name,
                         ![k].pc = IF calls[k].parent # Null THEN "parent"
                                   ELSE "save"]
          /\ lastCall' = NoCall
          /\ UNCHANGED <<folders, boards, folderAttr, boardAttr, nCalls>>
          /\ UNCHANGED roomVars

\* FolderService.ts:283-288: the new parent's row settles; only a missing
\* parent is refused
MoveFolderParentDone(k) ==
  /\ calls[k].op = "moveFolder"
  /\ calls[k].pc = "parent"
  /\ IF calls[k].parent \notin folders
     THEN Throw(k, FolderRow(calls[k].id))
     ELSE Goto(k, "save")

\* FolderService.ts:291-294: save of the loaded entity with its new parent
MoveFolderSaveDone(k) ==
  /\ calls[k].op = "moveFolder"
  /\ calls[k].pc = "save"
  /\ LET c   == calls[k]
         row == [name |-> c.name, parent |-> c.parent]
     IN /\ folderAttr' = [folderAttr EXCEPT ![c.id] = row]
        /\ calls' = Remove(calls, k)
        /\ lastCall' = Outcome(c, FALSE, FolderRow(c.id), row)
        /\ UNCHANGED <<folders, boards, boardAttr, nCalls>>
        /\ UNCHANGED roomVars

\* no FolderService call has been made; rows have their columns unset
CatalogInit ==
  /\ folderAttr = [id \in FolderIds |-> RootRow]
  /\ boardAttr = [id \in Boards |-> RootRow]
  /\ calls = <<>>
  /\ nCalls = 0
  /\ lastCall = NoCall

\* ------------------------------------------------------ specification
\* rooms.ts:106 and 112: an empty map and a resolved mutex; every id names a
\* board, none names a folder, and a board among ids may have a snapshot row
InitOn(ids) ==
  /\ rooms = [id \in Boards |-> NoRoom]
  /\ roomObjs = <<>>
  /\ queue = <<>>
  /\ runs = <<>>
  /\ flushes = <<>>
  /\ boards = Boards
  /\ folders = {}
  /\ store \in [Boards -> {Absent, Stored}]
  /\ \A id \in Boards \ ids : store[id] = Absent
  /\ nEdits = 0
  /\ nEnv = 0
  /\ lastReturn = <<>>
  /\ lastRun = NoRun
  /\ batch = [id \in Boards |-> NoBatch]
  /\ CatalogInit

Init == InitOn(OneBoard)

\* the operations on one room id, with every I/O outcome
Next ==
  \/ \E id \in OneBoard : Call(id, MaxClients)
  \/ \E threw \in BOOLEAN : LoadOk(threw)
  \/ LoadThrows
  \/ \E r \in DOMAIN roomObjs : Mutate(r)
  \/ \E r \in DOMAIN roomObjs : Leave(r)
  \/ \E i \in DOMAIN runs : RetCheckDone(i)
  \/ \E i \in DOMAIN runs : RetThrows(i)
  \/ \E i \in DOMAIN runs : RetDeleteDone(i)
  \/ \E i \in DOMAIN runs, threw \in BOOLEAN : RetFindDone(i, threw)
  \/ \E i \in DOMAIN runs, threw \in BOOLEAN : RetWriteDone(i, threw)
  \/ SweeperTick
  \/ \E k \in DOMAIN flushes, threw \in BOOLEAN : FlushFindDone(k, threw)
  \/ \E k \in DOMAIN flushes, threw \in BOOLEAN : FlushWriteDone(k, threw)
  \/ \E id \in OneBoard : DeleteBoard(id)
  \/ \E id \in OneBoard : CreateFolder(id)

Spec == Init /\ [][Next]_vars

\* the coordinator and the retention runs on two room ids: connection
\* requests, loads, departures and catalog checks, without edits or sweeper
NextQ ==
  \/ \E id \in Boards : Call(id, MaxClientsQ)
  \/ \E threw \in BOOLEAN : LoadOk(threw)
  \/ LoadThrows
  \/ \E r \in DOMAIN roomObjs : Leave(r)
  \/ \E i \in DOMAIN runs : RetCheckDone(i)

InitQ == InitOn(Boards)

SpecQ == InitQ /\ [][NextQ]_vars

\* the same operations, started from the catalogs in which a retention run
\* meets an id that names no board: a folder stored under the id of a board
\* that can still be deleted, or an id under which no board is stored
InitD ==
  /\ rooms = [id \in Boards |-> NoRoom]
  /\ roomObjs = <<>>
  /\ queue = <<>>
  /\ runs = <<>>
  /\ flushes = <<>>
  /\ \/ /\ boards = Boards
        /\ folders = OneBoard
        /\ store \in [Boards -> {Absent, Stored}]
        /\ \A id \in Boards \ OneBoard : store[id] = Absent
     \/ /\ boards = {}
        /\ folders = {}
        /\ store = [id \in Boards |-> Absent]
  /\ nEdits = 0
  /\ nEnv = 0
  /\ lastReturn = <<>>
  /\ lastRun = NoRun
  /\ batch = [id \in Boards |-> NoBatch]
  /\ CatalogInit

SpecD == InitD /\ [][Next]_vars

\* rooms.ts:132 and 138: the pending read of the head slot settles, or the
\* constructor raises
Settles == (\E threw \in BOOLEAN : LoadOk(threw)) \/ LoadThrows

\* the coordinator on two room ids with every read terminating; a call is made
\* only while a room can still be constructed for it
NextL ==
  \/ \E id \in Boards :
       Len(queue) + Len(roomObjs) < MaxRooms /\ Call(id, MaxClientsQ)
  \/ \E threw \in BOOLEAN : LoadOk(threw)
  \/ LoadThrows
  \/ \E r \in DOMAIN roomObjs : Leave(r)
  \/ \E i \in DOMAIN runs : RetCheckDone(i)

SpecL == InitQ /\ [][NextL]_vars /\ WF_vars(Settles)

\* the session callbacks on two room ids: connections, loads, edits,
\* departures and the retention runs of boards that exist, without sweeper
\* and with every database call succeeding
NextF ==
  \/ \E id \in Boards : Call(id, MaxClients)
  \/ LoadOk(FALSE)
  \/ \E r \in DOMAIN roomObjs : Mutate(r)
  \/ \E r \in DOMAIN roomObjs : Leave(r)
  \/ \E i \in DOMAIN runs : RetCheckDone(i)
  \/ \E i \in DOMAIN runs : RetFindDone(i, FALSE)
  \/ \E i \in DOMAIN runs : RetWriteDone(i, FALSE)

SpecF == InitQ /\ [][NextF]_vars

\* the catalog service on an empty catalog: folders and boards are created
\* and folders moved by calls that overlap; no room is open
InitC ==
  /\ rooms = [id \in Boards |-> NoRoom]
  /\ roomObjs = <<>>
  /\ queue = <<>>
  /\ runs = <<>>
  /\ flushes = <<>>
  /\ boards = {}
  /\ folders = {}
  /\ store = [id \in Boards |-> Absent]
  /\ nEdits = 0
  /\ nEnv = 0
  /\ lastReturn = <<>>
  /\ lastRun = NoRun
  /\ batch = [id \in Boards |-> NoBatch]
  /\ CatalogInit

NextC ==
  \/ \E id \in FolderIds, parent \in FolderIds \cup {Null} :
       CreateFolderStart(id, parent)
  \/ \E k \in DOMAIN calls : CreateFolderFindDone(k)
  \/ \E k \in DOMAIN calls : CreateFolderParentDone(k)
  \/ \E k \in DOMAIN calls, found \in BOOLEAN : CreateFolderSaveDone(k, found)
  \/ \E id \in Boards, folder \in FolderIds \cup {Null} :
       CreateBoardStart(id, folder)
  \/ \E k \in DOMAIN calls : CreateBoardFindDone(k)
  \/ \E k \in DOMAIN calls : CreateBoardFolderDone(k)
  \/ \E k \in DOMAIN calls, found \in BOOLEAN : CreateBoardSaveDone(k, found)
  \/ \E id \in FolderIds, parent \in FolderIds \cup {Null} :
       MoveFolderStart(id, parent)
  \/ \E k \in DOMAIN calls : MoveFolderFindDone(k)
  \/ \E k \in DOMAIN calls : MoveFolderParentDone(k)
  \/ \E k \in DOMAIN calls : MoveFolderSaveDone(k)

SpecC == InitC /\ [][NextC]_vars

TypeOK ==
  /\ \A id \in Boards : rooms[id] \in 0 .. Len(roomObjs)
  /\ Len(roomObjs) <= MaxRooms
  /\ Len(runs) <= MaxRuns
  /\ Len(flushes) <= MaxFlushes
  /\ \A id \in Boards : store[id] \in {Absent} \cup Contents

\* ---------------------------------------------------------------- claims
OpenRooms(id) == {r \in DOMAIN roomObjs : roomObjs[r].id = id /\ ~roomObjs[r].closed}

Ended == lastRun # NoRun /\ ~lastRun.aborted

\* C1: in every reachable state at most one non-closed TLSocketRoom exists per
\* room id, whether or not it is still filed in the rooms map.
C1_SingleWriter == \A id \in Boards : Cardinality(OpenRooms(id)) <= 1

\* C2: the callers of makeOrLoadRoom(id) that were pending together while no
\* live record existed, with no room of that id closed and no load failed
\* meanwhile, all receive the same room, and the store is read once for them.
C2_OneLoadPerColdGroup ==
  \A id \in Boards :
    ~batch[id].void => Cardinality(batch[id].got) <= 1 /\ batch[id].reads <= 1

\* C3: when the last participant left a dirty room whose board exists, then at
\* the end of the retention run the store holds the room's final snapshot, the
\* room is closed and the map has no record for the id. Stated here for
\* behaviours without any exception or catalog change.
C3_RetentionPersistsDirty ==
  (Ended /\ lastRun.dirtyAtLeave /\ lastRun.boardAtCheck /\ nEnv = 0)
    => /\ lastRun.storeAtEnd = lastRun.snapAtEnd
       /\ roomObjs[lastRun.room].closed
       /\ rooms[lastRun.id] = NoRoom

\* C4: a retention run for an id that names no board deletes the snapshot row
\* and does not upsert, then closes the room and removes the record.
C4_UncataloguedIsDeleted ==
  (Ended /\ ~lastRun.boardAtCheck)
    => /\ lastRun.del
       /\ ~lastRun.ups
       /\ roomObjs[lastRun.room].closed
       /\ rooms[lastRun.id] = NoRoom

\* C5: a retention run for an id whose board exists at the time of the check
\* never issues a delete of the snapshot row.
C5_CataloguedIsNeverDeleted ==
  (lastRun # NoRun /\ lastRun.boardAtCheck) => ~lastRun.del

\* C6: when a saveSnapshot started by the sweeper ends with an exception, the
\* needsPersist flag of the room it was started for is true afterwards.
C6_FailedFlushStaysDirty ==
  [][\A k \in DOMAIN flushes :
       (flushes' = Remove(flushes, k) /\ nEnv' = nEnv + 1
          /\ rooms[flushes[k].id] = flushes[k].room)
         => roomObjs'[flushes[k].room].needsPersist]_vars

\* C7: a makeOrLoadRoom whose snapshot read raised completes with an error; it
\* never returns a room constructed as if the board had no snapshot.
C7_ReadFailureIsAnError ==
  \A k \in DOMAIN lastReturn : lastReturn[k].readThrew => lastReturn[k].err

\* C8: while a retention run for an id is in flight the map holds no record
\* for that id other than the run's room, and the removal that ends a run
\* never removes a live record of another room.
C8_RetentionExcludesCreation ==
  /\ \A i \in DOMAIN runs :
       rooms[roomObjs[runs[i].room].id] \in {NoRoom, runs[i].room}
  /\ lastRun # NoRun => ~lastRun.lostLive

\* what the constructor is given after a read (rooms.ts:132-139)
Loaded(ret) ==
  IF ret.readThrew \/ ret.readVal = Absent THEN Empty ELSE ret.readVal

\* C9: makeOrLoadRoom never returns a closed room; a call that finds no open
\* record under the id (none, or a closed one) reads the store and returns a
\* room constructed in that call from what it read, and a call that does not
\* read returns the open record of the map.
C9_ReconnectionAfterClose ==
  \A k \in DOMAIN lastReturn :
    LET ret == lastReturn[k] IN
    ~ret.err =>
      /\ ~ret.closedAtReturn
      /\ ~roomObjs[ret.room].closed
      /\ rooms[ret.id] = ret.room
      /\ ret.cold => (ret.room = Len(roomObjs) /\ ret.snap = Loaded(ret))

\* C9 witness: a room of the id was closed and removed, and a later call read
\* the store and got a new room
C9_Witness ==
  \E k \in DOMAIN lastReturn :
    /\ ~lastReturn[k].err
    /\ lastReturn[k].cold
    /\ lastReturn[k].readVal = Stored
    /\ \E r \in DOMAIN roomObjs :
         r < lastReturn[k].room /\ roomObjs[r].id = lastReturn[k].id
           /\ roomObjs[r].closed

\* C10: the first makeOrLoadRoom for a board whose row holds S returns a room
\* whose snapshot is S, and while a room of the id is open no later call
\* reads the store or returns another room.
C10_LoadThenReuse ==
  \A k \in DOMAIN lastReturn :
    LET ret == lastReturn[k] IN
    (~ret.err /\ ret.cold) =>
      /\ ret.readVal # Absent => ret.snap = ret.readVal
      /\ OpenRooms(ret.id) = {ret.room}

IsSuffix(s, q) == \E k \in 0 .. Len(q) : s = SubSeq(q, k + 1, Len(q))

\* C11: the pending slots of all room ids form one FIFO queue: a call joins at
\* the tail, slots leave only from the head in order, and a step settles at
\* most one read and constructs at most one room, those of the head slot.
C11_SingleFifoQueue ==
  [][/\ \/ IsSuffix(queue', queue)
        \/ \E id \in Boards, b \in BOOLEAN :
             queue' = Append(queue, [id |-> id, inBatch |-> b])
     /\ Len(roomObjs') <= Len(roomObjs) + 1
     /\ \A k \in DOMAIN lastReturn' :
          lastReturn'[k].cold =>
            /\ k = 1
            /\ queue # <<>>
            /\ lastReturn'[k].id = Head(queue).id]_vars

\* C11 witness: the load for one id has just completed while the slot of
\* another id was waiting behind it and is now the head
C11_Witness ==
  /\ lastReturn # <<>>
  /\ lastReturn[1].cold
  /\ ~lastReturn[1].err
  /\ queue # <<>>
  /\ Head(queue).id # lastReturn[1].id

\* C12: an error is returned only to the caller of the head slot, in the step
\* in which that slot's construction raised; when it raises that caller gets
\* the error, the slots behind it run on, and none of them gets an error.
C12_ErrorIsolation ==
  [][/\ \A k \in DOMAIN lastReturn' :
          lastReturn'[k].err =>
            /\ k = 1
            /\ queue # <<>>
            /\ lastReturn'[k].id = Head(queue).id
            /\ nEnv' = nEnv + 1
     /\ (nEnv' = nEnv + 1 /\ lastReturn' # <<>> /\ Len(roomObjs') = Len(roomObjs))
          => /\ lastReturn'[1].err
             /\ IsSuffix(queue', Tail(queue))
             /\ \A k \in 2 .. Len(lastReturn') :
                  /\ ~lastReturn'[k].err
                  /\ rooms'[lastReturn'[k].id] = lastReturn'[k].room]_vars

\* C12 witness: a slot failed and the slot behind it, in the same drain,
\* returned a room to its caller
C12_Witness ==
  /\ Len(lastReturn) >= 2
  /\ lastReturn[1].err
  /\ ~lastReturn[2].err

\* C13: a step in which a slot fails leaves the rooms map as it was and files
\* no room; a record enters the map only in the step in which its room was
\* constructed, and that room is the one returned to the slot's caller.
C13_NoPartialRecord ==
  [][/\ (\E k \in DOMAIN lastReturn' : lastReturn'[k].err)
          => rooms' = rooms /\ Len(roomObjs') = Len(roomObjs)
     /\ \A id \in Boards :
          (rooms'[id] # rooms[id] /\ rooms'[id] # NoRoom)
            => /\ lastReturn' # <<>>
               /\ ~lastReturn'[1].err
               /\ lastReturn'[1].cold
               /\ lastReturn'[1].id = id
               /\ lastReturn'[1].room = rooms'[id]
               /\ rooms'[id] = Len(roomObjs')
               /\ roomObjs'[rooms'[id]].id = id
               /\ ~roomObjs'[rooms'[id]].closed]_vars

\* C13 witness: a slot has failed while the map holds the record of another id
C13_Witness ==
  /\ lastReturn # <<>>
  /\ lastReturn[1].err
  /\ \E id \in Boards : id # lastReturn[1].id /\ rooms[id] # NoRoom

\* C14: needsPersist of a room that stays open goes from true to false only
\* in the step that completes a successful write of that room's snapshot.
C14_DirtyUntilSaved ==
  [][\A r \in DOMAIN roomObjs :
       (roomObjs[r].needsPersist /\ ~roomObjs'[r].needsPersist
          /\ ~roomObjs'[r].closed)
         => \E k \in DOMAIN flushes :
              /\ flushes[k].room = r
              /\ flushes' = Remove(flushes, k)
              /\ store'[roomObjs[r].id] = roomObjs[r].snap]_vars

\* C15: when the saveSnapshot of a retention run for a board that exists ends
\* with an exception, the room stays open and filed in the map with
\* needsPersist true, so that its state can still be written.
C15_FailedRetentionSaveKeepsRoom ==
  [][\A i \in DOMAIN runs :
       LET r  == runs[i].room
           id == roomObjs[r].id
       IN (runs[i].pc \in {"find", "write", "insert"} /\ runs' = Remove(runs, i)
             /\ nEnv' = nEnv + 1 /\ id \in boards)
            => /\ ~roomObjs'[r].closed
               /\ rooms'[id] = r
               /\ roomObjs'[r].needsPersist]_vars

\* C17: needsPersist rises only with an edit, and a tick starts one
\* saveSnapshot per record that was dirty and leaves no record of the map
\* dirty; hence a second tick without an edit in between starts none.
C17_SweeperIdempotence ==
  [][/\ \A r \in DOMAIN roomObjs :
          (~roomObjs[r].needsPersist /\ roomObjs'[r].needsPersist)
            => nEdits' = nEdits + 1
     /\ Len(flushes') > Len(flushes)
          => /\ \A k \in Len(flushes) + 1 .. Len(flushes') :
                  /\ rooms[flushes'[k].id] = flushes'[k].room
                  /\ roomObjs[flushes'[k].room].needsPersist
                  /\ flushes'[k].snap = roomObjs[flushes'[k].room].snap
             /\ \A j, k \in Len(flushes) + 1 .. Len(flushes') :
                  flushes'[j].room = flushes'[k].room => j = k
             /\ \A id \in Boards :
                  rooms[id] # NoRoom => ~roomObjs'[rooms[id]].needsPersist]_vars

\* C17 witness: a tick has started a saveSnapshot for a record that has not
\* been edited since and is not dirty
C17_Witness ==
  \E k \in DOMAIN flushes :
    /\ rooms[flushes[k].id] = flushes[k].room
    /\ roomObjs[flushes[k].room].snap = flushes[k].snap
    /\ ~roomObjs[flushes[k].room].needsPersist
    /\ roomObjs[flushes[k].room].n > 0

\* C18: after every step the map holds no record of a closed room, and the
\* record of an open room leaves the map only in the step that ends a
\* retention run, never in a sweeper tick.
C18_SweeperEviction ==
  [][/\ \A id \in Boards :
          rooms'[id] # NoRoom => ~roomObjs'[rooms'[id]].closed
     /\ \A id \in Boards :
          (rooms[id] # NoRoom /\ ~roomObjs[rooms[id]].closed
             /\ rooms'[id] # rooms[id])
            => lastRun' # NoRun /\ ~lastRun'.aborted]_vars

\* C18 witness: a tick has run over a map that holds an open room of an id of
\* which an earlier room was closed; the open room's record is still filed
C18_Witness ==
  \E k \in DOMAIN flushes, r \in DOMAIN roomObjs :
    /\ roomObjs[r].closed
    /\ roomObjs[r].id = flushes[k].id
    /\ flushes[k].room # r
    /\ rooms[flushes[k].id] = flushes[k].room
    /\ ~roomObjs[flushes[k].room].closed

\* C19: when a saveSnapshot started by the sweeper ends and its room, still
\* open and filed, was edited after the tick read the snapshot, then the room
\* is dirty or a later saveSnapshot carrying its current snapshot is in flight.
C19_ConcurrentEditStaysDirty ==
  [][\A k \in DOMAIN flushes :
       LET r == flushes[k].room IN
       (flushes' = Remove(flushes, k) /\ rooms'[flushes[k].id] = r
          /\ ~roomObjs'[r].closed /\ roomObjs'[r].snap > flushes[k].snap)
         => \/ roomObjs'[r].needsPersist
            \/ \E j \in DOMAIN flushes' :
                 flushes'[j].room = r /\ flushes'[j].snap = roomObjs'[r].snap]_vars

\* saveSnapshot calls of the sweeper whose save of the row of id is in flight
SweeperWrites(id) ==
  {k \in DOMAIN flushes :
     flushes[k].id = id /\ flushes[k].pc \in {"write", "insert"}}

\* retention runs whose save or delete of the row of id is in flight
RetentionWrites(id) ==
  {i \in DOMAIN runs :
     roomObjs[runs[i].room].id = id
       /\ runs[i].pc \in {"write", "insert", "delete"}}

\* C20: for no id are a write of its row issued by the sweeper and a write of
\* its row issued by a retention run in flight at once.
C20_PerKeyWriteExclusion ==
  \A id \in Boards : SweeperWrites(id) = {} \/ RetentionWrites(id) = {}

C21_AtomicUpsert ==
  [][/\ \A k \in DOMAIN flushes :
          (flushes[k].pc \in {"write", "insert"} /\ flushes' = Remove(flushes, k)
             /\ nEnv' = nEnv /\ CanWrite(boards, flushes[k].id))
            => store'[flushes[k].id] = flushes[k].snap
     /\ \A i \in DOMAIN runs :
          (runs[i].pc \in {"write", "insert"} /\ runs' = Remove(runs, i)
             /\ nEnv' = nEnv /\ CanWrite(boards, roomObjs[runs[i].room].id))
            => store'[roomObjs[runs[i].room].id] = runs[i].snap]_vars

\* C22: a retention run for a room that was clean when its last participant
\* left and whose board exists at the check issues neither a save nor a
\* delete, closes the room and removes the record.
C22_CleanCataloguedNoIo ==
  (Ended /\ ~lastRun.dirtyAtLeave /\ lastRun.boardAtCheck)
    => /\ ~lastRun.del
       /\ ~lastRun.ups
       /\ roomObjs[lastRun.room].closed
       /\ rooms[lastRun.id] = NoRoom

\* C23: a retention run that issued roomRepo.delete ends by closing the room
\* and removing the record, also when the delete raised; it never ends by an
\* escaping exception.
C23_DeleteFailureNonFatal ==
  (lastRun # NoRun /\ lastRun.del)
    => /\ ~lastRun.aborted
       /\ roomObjs[lastRun.room].closed
       /\ rooms[lastRun.id] = NoRoom

\* C24: the step in which checkFolderExists raises for a retention run leaves
\* the store as it is, and that run has issued no delete.
C24_CheckFailureNeverDeletes ==
  [][\A i \in DOMAIN runs :
       (runs[i].pc = "check" /\ runs' = Remove(runs, i) /\ nEnv' = nEnv + 1)
         => /\ store' = store
            /\ lastRun' # NoRun
            /\ ~lastRun'.del]_vars

\* C24 witness: a retention run has ended on a failed check while the row of
\* its id is in the store
C24_Witness ==
  /\ lastRun # NoRun
  /\ lastRun.aborted
  /\ ~lastRun.del
  /\ lastRun.storeAtEnd # Absent
  /\ store[lastRun.id] = lastRun.storeAtEnd

\* C25: a retention run that issues no delete, in particular one whose
\* checkFolderExists raised, goes on as for an existing board: it does not end
\* by an escaping exception, it closes the room and removes the record.
C25_CheckFailureContinues ==
  (lastRun # NoRun /\ ~lastRun.del)
    => /\ ~lastRun.aborted
       /\ roomObjs[lastRun.room].closed
       /\ rooms[lastRun.id] = NoRoom

\* C28: the step that ends a retention run removes from the map no record
\* other than that of the run's own room.
C28_RemovesOnlyOwnRecord ==
  [][\A id \in Boards :
       (lastRun' # NoRun /\ rooms[id] # NoRoom /\ rooms'[id] = NoRoom)
         => rooms[id] = lastRun'.room]_vars

\* C29: a room is closed only in a step before which no participant is
\* attached to it.
C29_NoCloseWhileAttached ==
  [][\A r \in DOMAIN roomObjs :
       (~roomObjs[r].closed /\ roomObjs'[r].closed) => roomObjs[r].n = 0]_vars

\* C26: an open room without participant has a retention run in flight that
\* will close it; otherwise nothing closes it unless a participant connects
\* and leaves again.
C26_IdleRoomsAreReleased ==
  \A r \in DOMAIN roomObjs :
    (~roomObjs[r].closed /\ roomObjs[r].n = 0)
      => \E i \in DOMAIN runs : runs[i].room = r

\* C27: every slot that leaves the queue returns to its caller, with a room or
\* an error, and with every read terminating a non-empty queue is eventually
\* drained, also behind a failed slot and behind the load of another id.
C27_QueueLiveness ==
  /\ [][Len(queue') < Len(queue)
          => Len(lastReturn') = Len(queue) - Len(queue')]_vars
  /\ (queue # <<>>) ~> (queue = <<>>)

\* C27 witness: the queue has drained behind a failed slot, the call of
\* another id behind it having returned a room
C27_Witness ==
  /\ queue = <<>>
  /\ Len(lastReturn) >= 2
  /\ lastReturn[1].err
  /\ lastReturn[2].id # lastReturn[1].id
  /\ ~lastReturn[2].err

\* C30: in a behaviour without any exception or catalog change, when an open,
\* filed room is not dirty and no save or retention run for its id is in
\* flight, the row holds the room's edited snapshot; otherwise no later tick
\* or departure writes it.
C30_EventualPersistence ==
  \A id \in Boards :
    LET r == rooms[id] IN
    (/\ nEnv = 0
     /\ r # NoRoom
     /\ id \in boards
     /\ ~roomObjs[r].closed
     /\ ~roomObjs[r].needsPersist
     /\ roomObjs[r].snap > Stored
     /\ \A k \in DOMAIN flushes : flushes[k].id # id
     /\ \A i \in DOMAIN runs : roomObjs[runs[i].room].id # id)
      => store[id] = roomObjs[r].snap

\* C31: whenever makeOrLoadRoom returns a room, the map holds a record under
\* the requested id at the point where the caller reads it back, also while
\* retention runs or sweeper saves for that id are in flight.
C31_ReadBackDefined ==
  \A k \in DOMAIN lastReturn :
    ~lastReturn[k].err => rooms[lastReturn[k].id] # NoRoom

\* C31 witness: a caller got the record of the map while a retention run for
\* that very room was suspended on its I/O
C31_Witness ==
  \E k \in DOMAIN lastReturn, i \in DOMAIN runs :
    /\ ~lastReturn[k].err
    /\ ~lastReturn[k].cold
    /\ runs[i].room = lastReturn[k].room

\* a participant left room r and others remain (rooms.ts:149 is false)
PartialDeparture(r) ==
  /\ roomObjs'[r].n < roomObjs[r].n
  /\ roomObjs'[r].n > 0

\* C32: a departure that leaves participants behind changes nothing but the
\* participant count: map, dirty flags, open state, store, queue and the runs
\* in flight stay as they are; a retention run is never a slot of the queue:
\* starting, advancing or ending one leaves the queue as it is, and while
\* runs are suspended the read of the head slot, of whichever id, can settle.
C32_RetentionOutsideQueue ==
  [][/\ \A r \in DOMAIN roomObjs :
          PartialDeparture(r)
            => /\ roomObjs' = [roomObjs EXCEPT ![r].n = @ - 1]
               /\ UNCHANGED <<rooms, store, queue, runs, flushes>>
     /\ runs' # runs => queue' = queue
     /\ (runs # <<>> /\ queue # <<>> /\ Len(roomObjs) < MaxRooms)
          => ENABLED LoadOk(FALSE)]_vars

\* C32 witness: makeOrLoadRoom for one board has loaded and returned a room
\* while the retention run of another board was suspended on its I/O
C32_Witness ==
  \E k \in DOMAIN lastReturn, i \in DOMAIN runs :
    /\ ~lastReturn[k].err
    /\ lastReturn[k].cold
    /\ roomObjs[runs[i].room].id # lastReturn[k].id

\* C33: the step of an edit sets needsPersist of the edited session's own
\* record and changes nothing else but that session's document: the map, the
\* other records, the store and the operations in flight (queue, retention
\* runs, sweeper saves) are as before, so nothing was started or awaited.
C33_OnDataChangeOnlyFlags ==
  [][nEdits' # nEdits
       => /\ \E r \in DOMAIN roomObjs :
               /\ roomObjs'[r].needsPersist
               /\ roomObjs' = [roomObjs EXCEPT ![r].needsPersist = TRUE,
                                               ![r].snap = roomObjs'[r].snap]
          /\ UNCHANGED <<rooms, store, queue, runs, flushes, boards, folders>>]_vars

\* C33 witness: of two open, filed rooms one has been edited and is dirty,
\* the other is clean
C33_Witness ==
  \E r, q \in DOMAIN roomObjs :
    /\ r # q
    /\ rooms[roomObjs[r].id] = r
    /\ rooms[roomObjs[q].id] = q
    /\ roomObjs[r].n > 0
    /\ roomObjs[q].n > 0
    /\ roomObjs[r].needsPersist
    /\ roomObjs[r].snap > Stored
    /\ ~roomObjs[q].needsPersist

\* the document of the room has not been edited since its construction
Unmutated(obj) == obj.snap <= Stored

\* C34: makeOrLoadRoom for a board without snapshot row returns an empty room
\* that is not dirty; a room that has not been edited is never dirty, every
\* saveSnapshot in flight, of the sweeper or of a retention run, carries an
\* edited document, and the store never holds the document of an empty room.
C34_ColdAcquisitionNeverWrites ==
  /\ \A k \in DOMAIN lastReturn :
       LET ret == lastReturn[k] IN
       (~ret.err /\ ret.cold /\ ret.readVal = Absent)
         => /\ ret.snap = Empty
            /\ ~roomObjs[ret.room].needsPersist
  /\ \A r \in DOMAIN roomObjs :
       Unmutated(roomObjs[r]) => ~roomObjs[r].needsPersist
  /\ \A k \in DOMAIN flushes : flushes[k].snap > Stored
  /\ \A i \in DOMAIN runs :
       runs[i].pc \in {"find", "write", "insert"} => runs[i].snap > Stored
  /\ \A id \in Boards : store[id] # Empty

\* C34 witness: the retention run of a room loaded for a board without row and
\* never edited has ended without save or delete, and no row has appeared
C34_Witness ==
  /\ Ended
  /\ lastRun.boardAtCheck
  /\ lastRun.snapAtEnd = Empty
  /\ ~lastRun.ups
  /\ ~lastRun.del
  /\ store[lastRun.id] = Absent
  /\ nEnv = 0

\* C35: no folder has a parent that itself has a parent, whatever createFolder
\* and moveFolder calls have been made, and a createFolder that ends while its
\* parent is a second-level folder ends with an error.
C35_TwoLevelFolderLimit ==
  /\ \A f \in folders :
       folderAttr[f].parent # Null
         => FolderRow(folderAttr[f].parent).parent = Null
  /\ (lastCall.op = "createFolder" /\ lastCall.parent \in folders
        /\ folderAttr[lastCall.parent].parent # Null)
       => lastCall.err

\* C36: a createFolder or createBoard that ends while a row is stored under
\* its id ends with an error and leaves that row's name and parent as they
\* were, also when the row was stored by an overlapping call after the
\* duplicate check of this one.
C36_DuplicateIdRejected ==
  (lastCall.op \in {"createFolder", "createBoard"} /\ lastCall.before # NoRow)
    => /\ lastCall.err
       /\ lastCall.after = lastCall.before

====
